---- MODULE Spec2Model ----
(***************************************************************************)
(* A model of the table pipeline of pkg/clone: processTable (reader.go),   *)
(* its four stages connected by the channels chunks, diffs and batches,    *)
(* the batchers BatchTableWrites and BatchWrites (batcher.go), and the     *)
(* dispatcher ProcessTables (reader.go).                                   *)
(*                                                                         *)
(* Go channels: a send completes when the buffer has room, or, on an       *)
(* unbuffered channel, when the receiver is blocked in its receive; the    *)
(* receiver is then committed to that value.  Every action is one step of  *)
(* one goroutine between two blocking points.                              *)
(***************************************************************************)
EXTENDS Integers, Sequences, FiniteSets, TLC

\* ---------------------------------------------------------------- bounds
MaxChunks == 3
MaxQueue == 1
MaxWeight == 2
MaxWriterWeight == 1
MaxDiffsPerChunk == 1
MaxBatchSize == 2
MaxDiffs == 2
MaxFaults == 1
MaxTables == 2
IntBits == 4
MaxBounds == 2
MaxRows == 2
MaxRanges == 1
MaxCalls == 2
MaxLater == 2
MaxStream == 3

\* ------------------------------------------------------------- constants
\* error values: nil, the context's error, and the three stage failures
Nil == "nil"
Canceled == "context.Canceled"
ChunkErr == "chunking failed"
ReadErr == "read failed"
WriteErr == "write failed"
StageErrors == {ChunkErr, ReadErr, WriteErr}

\* DiffType
DiffTypes == {"insert", "update", "delete"}

TheTable == "customers"

VARIABLES
  cmd,            \* [QueueSize, WriteBatchSize]: the configuration
  tableChunks,    \* how many chunks the table has
  readerLimiter,  \* [nil, size, cur]: *semaphore.Weighted
  writerLimiter,  \* [size, cur]
  ambient,        \* the ctx passed to processTable is done
  g,              \* processTable's errgroup: [err, waited]
  dg,             \* the differ's errgroup: [err]
  wg,             \* the writer's errgroup: [err]
  chunks,         \* channel [buf, closed]
  diffs,          \* channel [buf, closed]
  batches,        \* channel [buf, closed]
  chunker,        \* [pc, next]
  differ,         \* [pc, chunk, chunkCount]
  diffTasks,      \* per chunk: [pc, sent]: the g.Go of reader.go:96
  batcher,        \* [pc, batch, todo]
  batchesByType,  \* the batcher's map
  writer,         \* [pc, batch, err]: err is what the stage returned
  writeTasks,     \* batches being written by the writer's sub-group
  ret,            \* [done, err]: processTable's return
  writesEnqueued, \* counter per type
  writesProcessed,\* counter per type
  hist,           \* history: faults: the failures injected; emitted: the batches
                  \* sent on batches, each with whether diffs was closed and
                  \* whether the batcher had taken its ctx.Done() case by then;
                  \* observed: the batcher took its ctx.Done() case;
                  \* sendAfterClose: a send on a closed channel; panic: a nil
                  \* dereference ended the process; cancelled: the caller
                  \* cancelled; nfaults: how many failures were injected
  feeder,         \* the sender on diffs when a batcher runs alone: [sent, fed]
  tableCh,        \* ProcessTables: the channel of tables [buf, closed, left],
                  \* left: how many tables its sender has still to send
  pt,             \* ProcessTables: [pc, err, table]; pc is "none" when
                  \* processTable is run on its own
  ck,             \* StreamChunk on a list of chunks: [impl, extra, kind, chunks,
                  \* next, out]; out: the where clause of each chunk queried
  rs,             \* a stream of filterStreamByShard and its reader: [rows, fail,
                  \* filter, pos, out, end]; rows, fail: the source stream; pos:
                  \* the source rows taken; out: the rows Next returned; end:
                  \* "" or how the last Next ended ("nil", "err")
  lq,             \* limitingDBReader.QueryContext: [pc, in, token, queried,
                  \* notes, ret, calls]; in: what the limiter, the context and
                  \* the underlying reader answer in this call; token: a token
                  \* was granted in this call; queried: the calls that queried
                  \* the underlying reader; notes: the notifications sent to
                  \* tokens, [call, kind]; ret: <<>> or the returned values;
                  \* calls: the number of this call
  rd,             \* readAll on a stream: [pc, src, failAt, buf, pos, rows,
                  \* closed, ret, later]; src: the rows the stream was built
                  \* from; failAt: the call of Next that fails, 0 for the
                  \* bufferStream, which never fails; buf: the rows the stream
                  \* still holds (b.rows); pos: the calls of Next made; rows:
                  \* readAll's rows; closed: the calls of Close; ret: <<>> or
                  \* the returned values; later: what Next returned after
                  \* readAll did (<<>> for nil)
  up              \* Row.Updated: [pc, r, was, row, ret, panic]; r: the receiver;
                  \* was: the receiver at the call; row: the argument; ret:
                  \* <<>> or the returned row; panic: "" or the panic's message

pipeVars == <<cmd, tableChunks, readerLimiter, writerLimiter, ambient, g, dg, wg,
              chunks, diffs, batches, chunker, differ, diffTasks, batcher,
              batchesByType, writer, writeTasks, ret, writesEnqueued,
              writesProcessed, hist>>

\* the state of the functions that are checked on their own
pureVars == <<ck, rs, lq, rd, up>>

envVars == <<feeder, tableCh, pt, pureVars>>

vars == <<pipeVars, envVars>>

\* ------------------------------------------------------------- contexts
\* errgroup.WithContext: the derived context is done when the parent is, when a
\* function of the group returned an error, or when Wait has returned.
CtxDone == ambient \/ g.err # Nil \/ g.waited
DifferCtxDone == CtxDone \/ dg.err # Nil
WriterCtxDone == CtxDone \/ wg.err # Nil

\* errgroup.Group.Go: the first non-nil error is kept
GroupErr(grp, err) == IF grp.err = Nil THEN [grp EXCEPT !.err = err] ELSE grp

\* ------------------------------------------------------------- channels
MkChan == [buf |-> <<>>, closed |-> 0]
CanSend(ch, receiverWaiting) ==
  \/ Len(ch.buf) < cmd.QueueSize
  \/ cmd.QueueSize = 0 /\ Len(ch.buf) = 0 /\ receiverWaiting
\* a value handed to a blocked receiver of an unbuffered channel
Committed(ch) == cmd.QueueSize = 0 /\ Len(ch.buf) > 0
Send(ch, v) == [ch EXCEPT !.buf = Append(@, v)]
Close(ch) == [ch EXCEPT !.closed = @ + 1]

\* ------------------------------------------------------------ semaphore
\* semaphore.Weighted.Acquire(ctx, 1) takes a permit when one is free; with a
\* done ctx it may return ctx.Err() instead (always when it would have to wait;
\* with a free permit too in the releases of the package that test ctx first)
CanAcquire(sem) == sem.cur < sem.size
Acquired(sem) == [sem EXCEPT !.cur = @ + 1]
\* seeded fault: Release gives no permit back
Released_Leak(sem) == sem
Released(sem) == [sem EXCEPT !.cur = @ - 1]

\* ---------------------------------------------------------------- types
Batch(type, table, rows) == [Type |-> type, Table |-> table, Rows |-> rows]
Diff(type, table, row) == [Type |-> type, Table |-> table, Row |-> row]
Tables == {"customers", "orders"}
\* a counter vector labelled by (table, type)
ZeroCount == [k \in Tables \X DiffTypes |-> 0]
EmptyMap == [k \in {} |-> Batch("", "", <<>>)]

\* ------------------------------------------------------ pipeline: Init
InitStages(fn) ==
  /\ cmd \in [QueueSize : 0..MaxQueue, WriteBatchSize : 1..MaxBatchSize]
  /\ tableChunks \in 1..MaxChunks
  /\ writerLimiter \in [size : 1..MaxWriterWeight, cur : {0}]
  /\ ambient = FALSE
  /\ g = [err |-> Nil, waited |-> FALSE]
  /\ dg = [err |-> Nil]
  /\ wg = [err |-> Nil]
  /\ chunks = MkChan
  /\ diffs = MkChan
  /\ batches = MkChan
  /\ chunker = [pc |-> "acquire", next |-> 1]
  /\ differ = [pc |-> "recv", chunk |-> 0, chunkCount |-> 0]
  /\ diffTasks = [c \in 1..tableChunks |-> [pc |-> "idle", sent |-> 0]]
  /\ batcher = [fn |-> fn, pc |-> "select",
                batch |-> Batch("", "", <<>>), resume |-> "", todo |-> {}]
  /\ batchesByType = EmptyMap
  /\ writer = [pc |-> "recv", batch |-> Batch("", "", <<>>), err |-> Nil]
  /\ writeTasks = {}
  /\ ret = [done |-> FALSE, err |-> Nil]
  /\ writesEnqueued = ZeroCount
  /\ writesProcessed = ZeroCount
  /\ hist = [faults |-> {}, emitted |-> <<>>, observed |-> FALSE,
             sendAfterClose |-> FALSE, panic |-> FALSE, cancelled |-> FALSE,
             nfaults |-> 0]

\* processTable: the channels are made, the four stages started, g.Wait() pending
InitPipeline == InitStages("BatchTableWrites")

\* processTable called with a reader semaphore of weight >= 1, no permit held
IdleChunk ==
  ck = [impl |-> "none", extra |-> "", kind |-> "none", chunks |-> <<>>,
        next |-> 1, out |-> <<>>]
IdleReject ==
  rs = [rows |-> <<>>, fail |-> FALSE, filter |-> <<>>, pos |-> 0, out |-> <<>>,
        end |-> "none"]
IdleLimit ==
  lq = [pc |-> "none", in |-> <<>>, token |-> FALSE, queried |-> {},
        notes |-> <<>>, ret |-> <<>>, calls |-> 0]
IdleRead ==
  rd = [pc |-> "none", src |-> <<>>, failAt |-> 0, buf |-> <<>>, pos |-> 0,
        rows |-> <<>>, closed |-> 0, ret |-> <<>>, later |-> <<>>]
IdleUpdate ==
  up = [pc |-> "none", r |-> <<>>, was |-> <<>>, row |-> <<>>, ret |-> <<>>,
        panic |-> ""]
IdlePure == IdleChunk /\ IdleReject /\ IdleLimit /\ IdleRead /\ IdleUpdate

IdleEnv ==
  /\ IdlePure
  /\ feeder = [sent |-> 0, fed |-> <<>>]
  /\ tableCh = [buf |-> <<>>, closed |-> 0, left |-> 0]
  /\ pt = [pc |-> "none", err |-> Nil, table |-> 0]

Init ==
  /\ readerLimiter \in [nil : {FALSE}, size : 1..MaxWeight, cur : {0}]
  /\ InitPipeline
  /\ IdleEnv

\* --------------------------------------------------- chunker, reader.go:73
\* readerLimiter.Acquire(ctx, 1) on a nil *semaphore.Weighted (reader.go:74 and
\* reader.go:92) dereferences nil: the process panics
NilAcquire ==
  /\ readerLimiter.nil
  /\ chunker.pc = "acquire" \/ differ.pc = "acquire"
  /\ hist' = [hist EXCEPT !.panic = TRUE]
  /\ UNCHANGED <<envVars, cmd, tableChunks, readerLimiter, writerLimiter, ambient, g, dg, wg,
                 chunks, diffs, batches, chunker, differ, diffTasks, batcher,
                 batchesByType, writer, writeTasks, ret, writesEnqueued,
                 writesProcessed>>

\* readerLimiter.Acquire(ctx, 1): a free permit is taken
ChunkerAcquire ==
  /\ chunker.pc = "acquire"
  /\ ~readerLimiter.nil
  /\ CanAcquire(readerLimiter)
  /\ readerLimiter' = Acquired(readerLimiter)
  /\ chunker' = [chunker EXCEPT !.pc = "generate"]
  /\ UNCHANGED <<envVars, cmd, tableChunks, writerLimiter, ambient, g, dg, wg, chunks, diffs,
                 batches, differ, diffTasks, batcher, batchesByType, writer,
                 writeTasks, ret, writesEnqueued, writesProcessed, hist>>

\* readerLimiter.Acquire(ctx, 1) returns ctx.Err() when ctx is done; the chunker
\* returns it at reader.go:76, before the close(chunks) of reader.go:82
ChunkerAcquireFail ==
  /\ chunker.pc = "acquire"
  /\ ~readerLimiter.nil
  /\ CtxDone
  /\ g' = GroupErr(g, Canceled)
  /\ chunker' = [chunker EXCEPT !.pc = "done"]
  /\ UNCHANGED <<envVars, cmd, tableChunks, readerLimiter, writerLimiter, ambient, dg, wg,
                 chunks, diffs, batches, differ, diffTasks, batcher, batchesByType,
                 writer, writeTasks, ret, writesEnqueued, writesProcessed, hist>>

\* GenerateTableChunks sends the next chunk on the bounded channel
ChunkerSend ==
  /\ chunker.pc = "generate"
  /\ chunker.next <= tableChunks
  /\ CanSend(chunks, differ.pc = "recv")
  /\ chunks' = Send(chunks, chunker.next)
  /\ hist' = [hist EXCEPT !.sendAfterClose = @ \/ chunks.closed > 0]
  /\ chunker' = [chunker EXCEPT !.next = @ + 1]
  /\ UNCHANGED <<envVars, cmd, tableChunks, readerLimiter, writerLimiter, ambient, g, dg, wg,
                 diffs, batches, differ, diffTasks, batcher, batchesByType, writer,
                 writeTasks, ret, writesEnqueued, writesProcessed>>

\* GenerateTableChunks has returned err: close(chunks), the deferred Release,
\* and the error goes to the group
ChunkerReturn(err) ==
  /\ chunks' = Close(chunks)
  /\ readerLimiter' = Released(readerLimiter)
  /\ g' = IF err = Nil THEN g ELSE GroupErr(g, err)
  /\ chunker' = [chunker EXCEPT !.pc = "done"]
  /\ UNCHANGED <<envVars, cmd, tableChunks, writerLimiter, ambient, dg, wg, diffs, batches,
                 differ, diffTasks, batcher, batchesByType, writer, writeTasks,
                 ret, writesEnqueued, writesProcessed>>

ChunkerDone ==
  /\ chunker.pc = "generate"
  /\ chunker.next > tableChunks
  /\ ChunkerReturn(Nil)
  /\ UNCHANGED hist

\* a chunking query fails or ChunkingTimeout expires
ChunkerFail ==
  /\ chunker.pc = "generate"
  /\ chunker.next <= tableChunks
  /\ hist.nfaults < MaxFaults
  /\ ChunkerReturn(ChunkErr)
  /\ hist' = [hist EXCEPT !.faults = @ \cup {ChunkErr}, !.nfaults = @ + 1]

\* GenerateTableChunks observes the cancelled context at a suspension point
ChunkerCancelled ==
  /\ chunker.pc = "generate"
  /\ chunker.next <= tableChunks
  /\ CtxDone
  /\ ChunkerReturn(Canceled)
  /\ UNCHANGED hist

\* ---------------------------------------------------- differ, reader.go:88
\* for c := range chunks
DifferRecv ==
  /\ differ.pc = "recv"
  /\ Len(chunks.buf) > 0
  /\ differ' = [differ EXCEPT !.pc = "acquire", !.chunk = Head(chunks.buf)]
  /\ chunks' = [chunks EXCEPT !.buf = Tail(@)]
  /\ UNCHANGED <<envVars, cmd, tableChunks, readerLimiter, writerLimiter, ambient, g, dg, wg,
                 diffs, batches, chunker, diffTasks, batcher, batchesByType, writer,
                 writeTasks, ret, writesEnqueued, writesProcessed, hist>>

DifferRangeEnd ==
  /\ differ.pc = "recv"
  /\ Len(chunks.buf) = 0
  /\ chunks.closed > 0
  /\ differ' = [differ EXCEPT !.pc = "wait"]
  /\ UNCHANGED <<envVars, cmd, tableChunks, readerLimiter, writerLimiter, ambient, g, dg, wg,
                 chunks, diffs, batches, chunker, diffTasks, batcher, batchesByType,
                 writer, writeTasks, ret, writesEnqueued, writesProcessed, hist>>

\* readerLimiter.Acquire(ctx, 1) with the sub-group's ctx, then g.Go(diffChunk)
DifferAcquire ==
  /\ differ.pc = "acquire"
  /\ ~readerLimiter.nil
  /\ CanAcquire(readerLimiter)
  /\ readerLimiter' = Acquired(readerLimiter)
  /\ diffTasks' = [diffTasks EXCEPT ![differ.chunk].pc = "run"]
  /\ differ' = [differ EXCEPT !.pc = "recv", !.chunkCount = @ + 1]
  /\ UNCHANGED <<envVars, cmd, tableChunks, writerLimiter, ambient, g, dg, wg, chunks, diffs,
                 batches, chunker, batcher, batchesByType, writer, writeTasks, ret,
                 writesEnqueued, writesProcessed, hist>>

\* the Acquire returns ctx.Err(): the differ returns it at reader.go:94, with
\* no g.Wait() and no close(diffs)
DifferAcquireFail ==
  /\ differ.pc = "acquire"
  /\ ~readerLimiter.nil
  /\ DifferCtxDone
  /\ g' = GroupErr(g, Canceled)
  /\ differ' = [differ EXCEPT !.pc = "done"]
  /\ UNCHANGED <<envVars, cmd, tableChunks, readerLimiter, writerLimiter, ambient, dg, wg,
                 chunks, diffs, batches, chunker, diffTasks, batcher, batchesByType,
                 writer, writeTasks, ret, writesEnqueued, writesProcessed, hist>>

\* err := g.Wait(); on nil close(diffs)
DifferWait ==
  /\ differ.pc = "wait"
  /\ \A c \in DOMAIN diffTasks : diffTasks[c].pc # "run"
  /\ differ' = [differ EXCEPT !.pc = "done"]
  /\ IF dg.err # Nil
       THEN g' = GroupErr(g, dg.err) /\ UNCHANGED diffs
       ELSE diffs' = Close(diffs) /\ UNCHANGED g
  /\ UNCHANGED <<envVars, cmd, tableChunks, readerLimiter, writerLimiter, ambient, dg, wg,
                 chunks, batches, chunker, diffTasks, batcher, batchesByType, writer,
                 writeTasks, ret, writesEnqueued, writesProcessed, hist>>

\* ------------------------------------------------------------ diffChunk
\* the type of the diffs that a chunk yields: the chunks of the table yield
\* inserts, updates and deletes in turn
TypeOrder == <<"insert", "update", "delete">>
TypeOfChunk(c) == TypeOrder[((c - 1) % Len(TypeOrder)) + 1]

\* one diff of the chunk is sent on diffs
DiffSend(c) ==
  /\ diffTasks[c].pc = "run"
  /\ diffTasks[c].sent < MaxDiffsPerChunk
  /\ CanSend(diffs, batcher.pc = "select")
  /\ diffs' = Send(diffs, Diff(TypeOfChunk(c), TheTable,
                              <<c, diffTasks[c].sent + 1>>))
  /\ hist' = [hist EXCEPT !.sendAfterClose = @ \/ diffs.closed > 0]
  /\ diffTasks' = [diffTasks EXCEPT ![c].sent = @ + 1]
  /\ UNCHANGED <<envVars, cmd, tableChunks, readerLimiter, writerLimiter, ambient, g, dg, wg,
                 chunks, batches, chunker, differ, batcher, batchesByType, writer,
                 writeTasks, ret, writesEnqueued, writesProcessed>>

\* diffChunk returns err: the deferred Release, the error goes to the sub-group
DiffReturn(c, err) ==
  /\ diffTasks[c].pc = "run"
  /\ diffTasks' = [diffTasks EXCEPT ![c].pc = "done"]
  /\ readerLimiter' = Released(readerLimiter)
  /\ dg' = IF err = Nil THEN dg ELSE GroupErr(dg, err)
  /\ UNCHANGED <<envVars, cmd, tableChunks, writerLimiter, ambient, g, wg, chunks, diffs,
                 batches, chunker, differ, batcher, batchesByType, writer,
                 writeTasks, ret, writesEnqueued, writesProcessed>>

DiffDone(c) == DiffReturn(c, Nil) /\ UNCHANGED hist

\* a read query fails or ReadTimeout expires
DiffFail(c) ==
  /\ hist.nfaults < MaxFaults
  /\ DiffReturn(c, ReadErr)
  /\ hist' = [hist EXCEPT !.faults = @ \cup {ReadErr}, !.nfaults = @ + 1]

DiffCancelled(c) ==
  /\ DifferCtxDone
  /\ DiffReturn(c, Canceled)
  /\ UNCHANGED hist

\* ------------------------------------------------- batcher, batcher.go
\* the key of a diff's open batch: batchesByType[diff.Type] in BatchTableWrites,
\* batchesByType[diff.Type][diff.Row.Table.Name] in BatchWrites
TableKey(diff) == diff.Type
\* seeded fault: the open batches are keyed by table name alone
MultiKey_TableOnly(diff) == <<"insert", diff.Table>>
MultiKey(diff) == <<diff.Type, diff.Table>>
KeyOfBatch(b) == IF batcher.fn = "BatchTableWrites" THEN b.Type ELSE <<b.Type, b.Table>>

Put(m, k, b) == [x \in DOMAIN m \cup {k} |-> IF x = k THEN b ELSE m[x]]

\* batch, ok := batchesByType[key]; if !ok { batch = Batch{diff.Type, diff.Row.Table, nil} }
\* batch.Rows = append(batch.Rows, diff.Row)
Appended(m, k, diff) ==
  LET batch == IF k \in DOMAIN m THEN m[k] ELSE Batch(diff.Type, diff.Table, <<>>)
  IN  [batch EXCEPT !.Rows = Append(@, diff.Row)]

\* seeded fault: the comparison is strict
IsFull_Strict(batch) == Len(batch.Rows) > cmd.WriteBatchSize

\* if len(batch.Rows) >= batchSize
IsFull(batch) == Len(batch.Rows) >= cmd.WriteBatchSize

\* seeded fault: the sent batch keeps its rows
Cleared_Kept(batch) == batch

\* batch.Rows = nil
Cleared(batch) == [batch EXCEPT !.Rows = <<>>]

\* the open batches that the final loop sends: if len(batch.Rows) > 0
NonEmptyKeys(m) == {k \in DOMAIN m : Len(m[k].Rows) > 0}

\* case diff, more := <-diffs with more: the diff joins its open batch; a full
\* batch goes to enqueueBatch, whose first statement adds to writes_enqueued
OnDiff(k) ==
  LET diff == Head(diffs.buf)
      batch == Appended(batchesByType, k, diff)
  IN  /\ diffs' = [diffs EXCEPT !.buf = Tail(@)]
      /\ IF IsFull(batch)
           THEN /\ writesEnqueued' = [writesEnqueued EXCEPT
                                        ![<<batch.Table, batch.Type>>] = @ + Len(batch.Rows)]
                /\ batcher' = [batcher EXCEPT !.pc = "send", !.batch = batch,
                                              !.resume = "select"]
                /\ UNCHANGED batchesByType
           ELSE /\ batchesByType' = Put(batchesByType, k, batch)
                /\ UNCHANGED <<writesEnqueued, batcher>>
      /\ UNCHANGED <<envVars, cmd, tableChunks, readerLimiter, writerLimiter, ambient, g, dg,
                     wg, chunks, batches, chunker, differ, diffTasks, writer,
                     writeTasks, ret, writesProcessed, hist>>

TableOnDiff ==
  /\ batcher.fn = "BatchTableWrites"
  /\ batcher.pc = "select"
  /\ Len(diffs.buf) > 0
  /\ OnDiff(TableKey(Head(diffs.buf)))

MultiOnDiff ==
  /\ batcher.fn = "BatchWrites"
  /\ batcher.pc = "select"
  /\ Len(diffs.buf) > 0
  /\ OnDiff(MultiKey(Head(diffs.buf)))

\* enqueueBatch's batches <- batch: a plain send, no select on ctx; after it the
\* read loop clears the batch and stores it, the final loop goes on
EnqueueSend ==
  /\ batcher.pc = "send"
  /\ CanSend(batches, writer.pc = "recv")
  /\ batches' = Send(batches, batcher.batch)
  /\ hist' = [hist EXCEPT !.emitted = Append(@, [batch |-> batcher.batch,
                                                  closed |-> diffs.closed > 0,
                                                  observed |-> hist.observed]),
                          !.sendAfterClose = @ \/ batches.closed > 0]
  /\ batcher' = [batcher EXCEPT !.pc = batcher.resume, !.batch = Batch("", "", <<>>),
                                !.resume = ""]
  /\ batchesByType' = IF batcher.resume = "select"
                        THEN Put(batchesByType, KeyOfBatch(batcher.batch),
                                 Cleared(batcher.batch))
                        ELSE batchesByType
  /\ UNCHANGED <<envVars, cmd, tableChunks, readerLimiter, writerLimiter, ambient, g, dg, wg,
                 chunks, diffs, chunker, differ, diffTasks, writer, writeTasks, ret,
                 writesEnqueued, writesProcessed>>

\* case diff, more := <-diffs with !more: on to the final unfilled batches
UpstreamClosed ==
  /\ batcher.pc = "select"
  /\ Len(diffs.buf) = 0
  /\ diffs.closed > 0
  /\ batcher' = [batcher EXCEPT !.pc = "flush", !.todo = NonEmptyKeys(batchesByType)]
  /\ UNCHANGED <<envVars, cmd, tableChunks, readerLimiter, writerLimiter, ambient, g, dg, wg,
                 chunks, diffs, batches, chunker, differ, diffTasks, batchesByType,
                 writer, writeTasks, ret, writesEnqueued, writesProcessed, hist>>

\* for _, batch := range batchesByType: a map is ranged in any order
FlushNext ==
  /\ batcher.pc = "flush"
  /\ \E k \in batcher.todo :
       LET batch == batchesByType[k]
       IN  /\ writesEnqueued' = [writesEnqueued EXCEPT
                                   ![<<batch.Table, batch.Type>>] = @ + Len(batch.Rows)]
           /\ batcher' = [batcher EXCEPT !.pc = "send", !.batch = batch,
                                         !.resume = "flush", !.todo = @ \ {k}]
  /\ UNCHANGED <<envVars, cmd, tableChunks, readerLimiter, writerLimiter, ambient, g, dg, wg,
                 chunks, diffs, batches, chunker, differ, diffTasks, batchesByType,
                 writer, writeTasks, ret, writesProcessed, hist>>

\* BatchTableWrites, batcher.go:92: return nil after the final batches
TableFlushEnd ==
  /\ batcher.fn = "BatchTableWrites"
  /\ batcher.pc = "flush"
  /\ batcher.todo = {}
  /\ batcher' = [batcher EXCEPT !.pc = "returned"]
  /\ UNCHANGED <<envVars, cmd, tableChunks, readerLimiter, writerLimiter, ambient, g, dg, wg,
                 chunks, diffs, batches, chunker, differ, diffTasks, batchesByType,
                 writer, writeTasks, ret, writesEnqueued, writesProcessed, hist>>

\* seeded fault: on ctx.Done() the single-table batcher breaks out of the loop to the
\* final batches, as BatchWrites does
TableCtxDone_Flush ==
  /\ batcher.fn = "BatchTableWrites"
  /\ batcher.pc = "select"
  /\ CtxDone
  /\ ~Committed(diffs)
  /\ batcher' = [batcher EXCEPT !.pc = "flush", !.todo = NonEmptyKeys(batchesByType)]
  /\ hist' = [hist EXCEPT !.observed = TRUE]
  /\ UNCHANGED <<envVars, cmd, tableChunks, readerLimiter, writerLimiter, ambient, g,
                 dg, wg, chunks, diffs, batches, chunker, differ, diffTasks,
                 batchesByType, writer, writeTasks, ret, writesEnqueued,
                 writesProcessed>>

\* BatchTableWrites, batcher.go:109: case <-ctx.Done(): return nil
TableCtxDone ==
  /\ batcher.fn = "BatchTableWrites"
  /\ batcher.pc = "select"
  /\ CtxDone
  /\ ~Committed(diffs)
  /\ batcher' = [batcher EXCEPT !.pc = "returned"]
  /\ hist' = [hist EXCEPT !.observed = TRUE]
  /\ UNCHANGED <<envVars, cmd, tableChunks, readerLimiter, writerLimiter, ambient, g, dg, wg,
                 chunks, diffs, batches, chunker, differ, diffTasks, batchesByType,
                 writer, writeTasks, ret, writesEnqueued, writesProcessed>>

\* reader.go:117: close(batches) after BatchTableWrites returned (always nil)
BatcherClose ==
  /\ batcher.pc = "returned"
  /\ batches' = Close(batches)
  /\ batcher' = [batcher EXCEPT !.pc = "done"]
  /\ UNCHANGED <<envVars, cmd, tableChunks, readerLimiter, writerLimiter, ambient, g, dg, wg,
                 chunks, diffs, chunker, differ, diffTasks, batchesByType, writer,
                 writeTasks, ret, writesEnqueued, writesProcessed, hist>>

\* seeded fault: on ctx.Done() BatchWrites goes to close(batches) past the final
\* batches
MultiCtxDone_NoFlush ==
  /\ batcher.fn = "BatchWrites"
  /\ batcher.pc = "select"
  /\ CtxDone
  /\ ~Committed(diffs)
  /\ batcher' = [batcher EXCEPT !.pc = "flush", !.todo = {}]
  /\ hist' = [hist EXCEPT !.observed = TRUE]
  /\ UNCHANGED <<envVars, cmd, tableChunks, readerLimiter, writerLimiter, ambient, g, dg, wg,
                 chunks, diffs, batches, chunker, differ, diffTasks, batchesByType,
                 writer, writeTasks, ret, writesEnqueued, writesProcessed>>

\* BatchWrites, batcher.go:60: case <-ctx.Done(): break readChannel
MultiCtxDone ==
  /\ batcher.fn = "BatchWrites"
  /\ batcher.pc = "select"
  /\ CtxDone
  /\ ~Committed(diffs)
  /\ batcher' = [batcher EXCEPT !.pc = "flush", !.todo = NonEmptyKeys(batchesByType)]
  /\ hist' = [hist EXCEPT !.observed = TRUE]
  /\ UNCHANGED <<envVars, cmd, tableChunks, readerLimiter, writerLimiter, ambient, g, dg, wg,
                 chunks, diffs, batches, chunker, differ, diffTasks, batchesByType,
                 writer, writeTasks, ret, writesEnqueued, writesProcessed>>

\* BatchWrites, batcher.go:73: close(batches); return nil
MultiFlushEnd ==
  /\ batcher.fn = "BatchWrites"
  /\ batcher.pc = "flush"
  /\ batcher.todo = {}
  /\ batches' = Close(batches)
  /\ batcher' = [batcher EXCEPT !.pc = "done"]
  /\ UNCHANGED <<envVars, cmd, tableChunks, readerLimiter, writerLimiter, ambient, g, dg, wg,
                 chunks, diffs, chunker, differ, diffTasks, batchesByType, writer,
                 writeTasks, ret, writesEnqueued, writesProcessed, hist>>

\* --------------------------------------------------- writer, reader.go:122
\* for batch := range batches; writesEnqueued.Add(len(batch.Rows)) at reader.go:134
WriterRecv ==
  /\ writer.pc = "recv"
  /\ Len(batches.buf) > 0
  /\ LET batch == Head(batches.buf)
     IN  /\ writer' = [writer EXCEPT !.pc = "schedule", !.batch = batch]
         /\ writesEnqueued' = [writesEnqueued EXCEPT
                                 ![<<batch.Table, batch.Type>>] = @ + Len(batch.Rows)]
  /\ batches' = [batches EXCEPT !.buf = Tail(@)]
  /\ UNCHANGED <<envVars, cmd, tableChunks, readerLimiter, writerLimiter, ambient, g, dg, wg,
                 chunks, diffs, chunker, differ, diffTasks, batcher, batchesByType,
                 writeTasks, ret, writesProcessed, hist>>

WriterRangeEnd ==
  /\ writer.pc = "recv"
  /\ Len(batches.buf) = 0
  /\ batches.closed > 0
  /\ writer' = [writer EXCEPT !.pc = "wait"]
  /\ UNCHANGED <<envVars, cmd, tableChunks, readerLimiter, writerLimiter, ambient, g, dg, wg,
                 chunks, diffs, batches, chunker, differ, diffTasks, batcher,
                 batchesByType, writeTasks, ret, writesEnqueued, writesProcessed, hist>>

\* scheduleWriteBatch: a writer permit is acquired and the write joins the sub-group
WriterSchedule ==
  /\ writer.pc = "schedule"
  /\ CanAcquire(writerLimiter)
  /\ writerLimiter' = Acquired(writerLimiter)
  /\ writeTasks' = writeTasks \cup {writer.batch}
  /\ writer' = [writer EXCEPT !.pc = "recv", !.batch = Batch("", "", <<>>)]
  /\ UNCHANGED <<envVars, cmd, tableChunks, readerLimiter, ambient, g, dg, wg, chunks, diffs,
                 batches, chunker, differ, diffTasks, batcher, batchesByType, ret,
                 writesEnqueued, writesProcessed, hist>>

\* scheduleWriteBatch returns ctx.Err(): the writer returns it at reader.go:137,
\* without g.Wait() and without receiving from batches any more
WriterScheduleFail ==
  /\ writer.pc = "schedule"
  /\ WriterCtxDone
  /\ g' = GroupErr(g, Canceled)
  /\ writer' = [writer EXCEPT !.pc = "done", !.err = Canceled]
  /\ UNCHANGED <<envVars, cmd, tableChunks, readerLimiter, writerLimiter, ambient, dg, wg,
                 chunks, diffs, batches, chunker, differ, diffTasks, batcher,
                 batchesByType, writeTasks, ret, writesEnqueued, writesProcessed, hist>>

\* the write of one batch returns err: its permit is released
WriteReturn(b, err) ==
  /\ b \in writeTasks
  /\ writeTasks' = writeTasks \ {b}
  /\ writerLimiter' = Released(writerLimiter)
  /\ wg' = IF err = Nil THEN wg ELSE GroupErr(wg, err)
  /\ UNCHANGED <<envVars, cmd, tableChunks, readerLimiter, ambient, g, dg, chunks, diffs,
                 batches, chunker, differ, diffTasks, batcher, batchesByType, writer,
                 ret, writesEnqueued>>

\* on successful apply, writes_processed{table,type} is incremented
WriteDone(b) ==
  /\ WriteReturn(b, Nil)
  /\ writesProcessed' = [writesProcessed EXCEPT
                           ![<<b.Table, b.Type>>] = @ + Len(b.Rows)]
  /\ UNCHANGED hist

WriteFail(b) ==
  /\ hist.nfaults < MaxFaults
  /\ WriteReturn(b, WriteErr)
  /\ hist' = [hist EXCEPT !.faults = @ \cup {WriteErr}, !.nfaults = @ + 1]
  /\ UNCHANGED writesProcessed

WriteCancelled(b) ==
  /\ WriterCtxDone
  /\ WriteReturn(b, Canceled)
  /\ UNCHANGED <<hist, writesProcessed>>

\* return g.Wait() at reader.go:140
WriterWait ==
  /\ writer.pc = "wait"
  /\ writeTasks = {}
  /\ writer' = [writer EXCEPT !.pc = "done", !.err = wg.err]
  /\ g' = IF wg.err = Nil THEN g ELSE GroupErr(g, wg.err)
  /\ UNCHANGED <<envVars, cmd, tableChunks, readerLimiter, writerLimiter, ambient, dg, wg,
                 chunks, diffs, batches, chunker, differ, diffTasks, batcher,
                 batchesByType, writeTasks, ret, writesEnqueued, writesProcessed, hist>>

\* ----------------------------------------------- supervisor, reader.go:143
StagesExited ==
  /\ chunker.pc = "done"
  /\ differ.pc = "done"
  /\ batcher.pc = "done"
  /\ writer.pc = "done"

\* err := g.Wait() ... return errors.WithStack(err) / return nil
ProcessTableReturn ==
  /\ ~ret.done
  /\ StagesExited
  /\ ret' = [done |-> TRUE, err |-> g.err]
  /\ g' = [g EXCEPT !.waited = TRUE]
  /\ UNCHANGED <<envVars, cmd, tableChunks, readerLimiter, writerLimiter, ambient, dg, wg,
                 chunks, diffs, batches, chunker, differ, diffTasks, batcher,
                 batchesByType, writer, writeTasks, writesEnqueued, writesProcessed,
                 hist>>

\* the caller cancels the context passed to processTable
AmbientCancel ==
  /\ ~ambient
  /\ ~ret.done
  /\ ambient' = TRUE
  /\ hist' = [hist EXCEPT !.cancelled = TRUE]
  /\ UNCHANGED <<envVars, cmd, tableChunks, readerLimiter, writerLimiter, g, dg, wg, chunks,
                 diffs, batches, chunker, differ, diffTasks, batcher, batchesByType,
                 writer, writeTasks, ret, writesEnqueued, writesProcessed>>

\* ------------------------------------------------------- specifications
\* the steps of the goroutines of one processTable when nothing fails
StageStep ==
  \/ ChunkerAcquire \/ ChunkerSend \/ ChunkerDone
  \/ DifferRecv \/ DifferRangeEnd \/ DifferAcquire \/ DifferWait
  \/ \E c \in DOMAIN diffTasks : DiffSend(c)
  \/ \E c \in DOMAIN diffTasks : DiffDone(c)
  \/ TableOnDiff \/ EnqueueSend \/ UpstreamClosed \/ FlushNext \/ TableFlushEnd
  \/ BatcherClose
  \/ WriterRecv \/ WriterRangeEnd \/ WriterSchedule \/ WriterWait
  \/ \E b \in writeTasks : WriteDone(b)
  \/ ProcessTableReturn

\* the steps that observe a done context
CancelStep ==
  \/ ChunkerAcquireFail \/ ChunkerCancelled
  \/ DifferAcquireFail
  \/ \E c \in DOMAIN diffTasks : DiffCancelled(c)
  \/ TableCtxDone
  \/ WriterScheduleFail
  \/ \E b \in writeTasks : WriteCancelled(b)

\* the environment: failures of queries and writes, cancellation by the caller
FaultStep ==
  \/ ChunkerFail
  \/ \E c \in DOMAIN diffTasks : DiffFail(c)
  \/ \E b \in writeTasks : WriteFail(b)
  \/ AmbientCancel

Next == StageStep \/ CancelStep \/ FaultStep

Spec == Init /\ [][Next]_vars

\* -------------------------------------------- a batcher running alone
\* BatchTableWrites or BatchWrites called with batchSize >= 1 on a diffs channel
\* fed by some sender and a batches channel drained by some receiver; the other
\* stages of the pipeline are absent
BatcherInit ==
  /\ \E fn \in {"BatchTableWrites", "BatchWrites"} : InitStages(fn)
  /\ tableChunks = 1
  /\ writerLimiter.size = 1
  /\ readerLimiter = [nil |-> FALSE, size |-> 1, cur |-> 0]
  /\ IdleEnv

\* the sender on diffs, until the batcher has exited: any type; any table for
\* BatchWrites, the one table for BatchTableWrites; rows numbered in sending order
FeedDiff(type, table) ==
  /\ batcher.pc # "done"
  /\ batcher.fn = "BatchTableWrites" => table = TheTable
  /\ feeder.sent < MaxDiffs
  /\ diffs.closed = 0
  /\ CanSend(diffs, batcher.pc = "select")
  /\ diffs' = Send(diffs, Diff(type, table, feeder.sent + 1))
  /\ feeder' = [feeder EXCEPT !.sent = @ + 1,
                              !.fed = Append(@, Diff(type, table, feeder.sent + 1))]
  /\ UNCHANGED <<tableCh, pt, pureVars, cmd, tableChunks, readerLimiter, writerLimiter, ambient,
                 g, dg, wg, chunks, batches, chunker, differ, diffTasks, batcher,
                 batchesByType, writer, writeTasks, ret, writesEnqueued,
                 writesProcessed, hist>>

FeedClose ==
  /\ batcher.pc # "done"
  /\ diffs.closed = 0
  /\ diffs' = Close(diffs)
  /\ UNCHANGED <<envVars, cmd, tableChunks, readerLimiter, writerLimiter, ambient, g,
                 dg, wg, chunks, batches, chunker, differ, diffTasks, batcher,
                 batchesByType, writer, writeTasks, ret, writesEnqueued,
                 writesProcessed, hist>>

\* the receiver on batches takes the next batch
DrainBatch ==
  /\ batcher.pc # "done"
  /\ Len(batches.buf) > 0
  /\ batches' = [batches EXCEPT !.buf = Tail(@)]
  /\ UNCHANGED <<envVars, cmd, tableChunks, readerLimiter, writerLimiter, ambient, g,
                 dg, wg, chunks, diffs, chunker, differ, diffTasks, batcher,
                 batchesByType, writer, writeTasks, ret, writesEnqueued,
                 writesProcessed, hist>>

\* the caller cancels the context while the batcher runs
FeedCancel ==
  /\ batcher.pc # "done"
  /\ AmbientCancel

BatcherNext ==
  \/ \E t \in DiffTypes : \E tb \in Tables : FeedDiff(t, tb)
  \/ FeedClose
  \/ DrainBatch
  \/ FeedCancel
  \/ TableOnDiff \/ MultiOnDiff
  \/ EnqueueSend
  \/ UpstreamClosed
  \/ FlushNext
  \/ TableFlushEnd \/ MultiFlushEnd
  \/ TableCtxDone \/ MultiCtxDone
  \/ BatcherClose

BatcherSpec == BatcherInit /\ [][BatcherNext]_vars

\* ------------------------------------------------ ProcessTables, reader.go:39
\* ProcessTables called with an open tableCh and a live ctx.  tableCh is made by
\* the caller: its capacity ranges as QueueSize does.  Every table goes to
\* processTable with a nil readerLimiter (reader.go:46).
TablesInit ==
  /\ readerLimiter = [nil |-> TRUE, size |-> 0, cur |-> 0]
  /\ InitPipeline
  /\ IdlePure
  /\ feeder = [sent |-> 0, fed |-> <<>>]
  /\ tableCh = [buf |-> <<>>, closed |-> 0, left |-> MaxTables]
  /\ pt = [pc |-> "select", err |-> Nil, table |-> 0]

\* the process is alive
Alive == ~hist.panic

\* processTable is running for the table that ProcessTables received
TableRunning == Alive /\ pt.pc = "table"

\* the sender on tableCh sends the next table
SendTable ==
  /\ Alive
  /\ tableCh.left > 0
  /\ tableCh.closed = 0
  /\ CanSend(tableCh, pt.pc = "select")
  /\ tableCh' = [tableCh EXCEPT !.buf = Append(@, MaxTables - tableCh.left + 1),
                                !.left = @ - 1]
  /\ UNCHANGED <<feeder, pt, pureVars, pipeVars>>

\* the sender closes tableCh
CloseTables ==
  /\ Alive
  /\ tableCh.closed = 0
  /\ tableCh' = [tableCh EXCEPT !.closed = 1]
  /\ UNCHANGED <<feeder, pt, pureVars, pipeVars>>

\* case table, more := <-tableCh with more: processTable(ctx, ..., nil, ...) starts
TablesRecv ==
  /\ Alive
  /\ pt.pc = "select"
  /\ Len(tableCh.buf) > 0
  /\ tableCh' = [tableCh EXCEPT !.buf = Tail(@)]
  /\ pt' = [pt EXCEPT !.pc = "table", !.table = Head(tableCh.buf)]
  /\ UNCHANGED <<feeder, pureVars, pipeVars>>

\* case table, more := <-tableCh with !more: return nil
TablesClosed ==
  /\ Alive
  /\ pt.pc = "select"
  /\ Len(tableCh.buf) = 0
  /\ tableCh.closed > 0
  /\ pt' = [pt EXCEPT !.pc = "returned", !.err = Nil]
  /\ UNCHANGED <<feeder, tableCh, pureVars, pipeVars>>

\* case <-ctx.Done(): return nil
TablesCtxDone ==
  /\ Alive
  /\ pt.pc = "select"
  /\ ambient
  /\ ~Committed(tableCh)
  /\ pt' = [pt EXCEPT !.pc = "returned", !.err = Nil]
  /\ UNCHANGED <<feeder, tableCh, pureVars, pipeVars>>

\* the caller cancels the context while ProcessTables runs
TablesCancel ==
  /\ Alive
  /\ pt.pc # "returned"
  /\ AmbientCancel

\* The stages of the running processTable: the chunker's first statement is the
\* Acquire on the nil semaphore, so no chunk is ever sent; until the panic the
\* batcher and the writer can see a done ctx and a closed batches channel.
TablesNext ==
  \/ SendTable
  \/ CloseTables
  \/ TablesRecv
  \/ TablesClosed
  \/ TablesCtxDone
  \/ TablesCancel
  \/ TableRunning /\ NilAcquire
  \/ TableRunning /\ TableCtxDone
  \/ TableRunning /\ BatcherClose
  \/ TableRunning /\ WriterRangeEnd
  \/ TableRunning /\ WriterWait

TablesSpec == TablesInit /\ [][TablesNext]_vars

\* ------------------------------------------- functions checked on their own
\* no pipeline runs: the variables of processTable keep one fixed value
NoPipeline ==
  /\ InitPipeline
  /\ cmd = [QueueSize |-> 0, WriteBatchSize |-> 1]
  /\ tableChunks = 1
  /\ writerLimiter = [size |-> 1, cur |-> 0]
  /\ readerLimiter = [nil |-> FALSE, size |-> 1, cur |-> 0]
  /\ feeder = [sent |-> 0, fed |-> <<>>]
  /\ tableCh = [buf |-> <<>>, closed |-> 0, left |-> 0]
  /\ pt = [pc |-> "none", err |-> Nil, table |-> 0]

\* int64, at the width IntBits
MinInt64 == -(2 ^ (IntBits - 1))
MaxInt64 == 2 ^ (IntBits - 1) - 1
Int64 == MinInt64..MaxInt64

\* fmt's %d of an int64: a sign and decimal digits; and what the database reads
\* back from that text
RECURSIVE Digits(_)
Digits(n) == IF n < 10 THEN <<n>> ELSE Digits(n \div 10) \o <<n % 10>>
FormatInt(n) == [neg |-> n < 0, digits |-> Digits(IF n < 0 THEN -n ELSE n)]
RECURSIVE DigitsValue(_)
DigitsValue(ds) ==
  IF ds = <<>> THEN 0
  ELSE 10 * DigitsValue(SubSeq(ds, 1, Len(ds) - 1)) + ds[Len(ds)]
ParseInt(t) == IF t.neg THEN -DigitsValue(t.digits) ELSE DigitsValue(t.digits)

\* ---------------------------------------------- StreamChunk and chunkWhere
Chunk(first, last, start, end) ==
  [First |-> first, Last |-> last, Start |-> start, End |-> end]

\* the extra where clauses tried: none, and one that excludes the id 0
NoExtra == ""
ExtraClauses == {NoExtra, "id <> 0"}

\* a clause of the statement: the id column, an operator, a literal
Clause(op, n) == [op |-> op, lit |-> FormatInt(n)]

\* fmt.Sprintf("%s < %d", table.IDColumn, chunk.End)
FirstClause(chunk) == <<Clause("<", chunk.End)>>
\* seeded fault: the tail chunk starts after its Start
LastClause_Strict(chunk) == <<Clause(">", chunk.Start)>>
\* fmt.Sprintf("%s >= %d", table.IDColumn, chunk.Start)
LastClause(chunk) == <<Clause(">=", chunk.Start)>>

\* chunkWhere (part_001:209): the clauses joined by " and " after "where ", or
\* "" when there is none
chunkWhere(chunk, extraWhereClause) ==
  LET extra == IF extraWhereClause # NoExtra THEN <<Clause("<>", 0)>> ELSE <<>>
  IN  IF chunk.First /\ chunk.Last THEN extra
      ELSE IF chunk.First THEN extra \o FirstClause(chunk)
      ELSE IF chunk.Last THEN extra \o LastClause(chunk)
      ELSE extra \o LastClause(chunk) \o FirstClause(chunk)

\* StreamChunk (part_000:117): chunk.First is tested before chunk.Last; the
\* bounds are arguments of the query
streamChunkWhere(chunk) ==
  IF chunk.First THEN <<[op |-> "<", arg |-> chunk.End]>>
  ELSE IF chunk.Last THEN <<[op |-> ">=", arg |-> chunk.Start]>>
  ELSE <<[op |-> ">=", arg |-> chunk.Start], [op |-> "<", arg |-> chunk.End]>>

\* the database: the value a clause compares the id with, and whether a row
\* with that id satisfies the clause, all the clauses
ClauseValue(c) == IF "lit" \in DOMAIN c THEN ParseInt(c.lit) ELSE c.arg
Holds(c, id) ==
  LET v == ClauseValue(c)
  IN  CASE c.op = "<" -> id < v
        [] c.op = ">=" -> id >= v
        [] c.op = ">" -> id > v
        [] c.op = "<>" -> id # v
Selects(where, id) == \A i \in DOMAIN where : Holds(where[i], id)

\* the chunks First[ ,b1), [b1,b2), ..., Last[bk, ) of ascending boundaries
PartitionChunks(bs) ==
  [i \in 1..(Len(bs) + 1) |->
     Chunk(i = 1, i = Len(bs) + 1,
           IF i = 1 THEN 0 ELSE bs[i - 1],
           IF i = Len(bs) + 1 THEN 0 ELSE bs[i])]

Ascending(bs) == \A i \in 1..(Len(bs) - 1) : bs[i] < bs[i + 1]
Boundaries ==
  {bs \in UNION {[1..k -> Int64] : k \in 1..MaxBounds} : Ascending(bs)}

\* StreamChunk is called on each chunk of a list in turn: the chunks of a table
\* cut at ascending boundaries, or one chunk with any First, Last, Start, End
ChunkInit ==
  /\ NoPipeline
  /\ IdleReject /\ IdleLimit /\ IdleRead /\ IdleUpdate
  /\ \E impl \in {"chunkWhere", "branching"} :
       \/ \E bs \in Boundaries :
            ck = [impl |-> impl, extra |-> NoExtra, kind |-> "partition",
                  chunks |-> PartitionChunks(bs), next |-> 1, out |-> <<>>]
       \/ \E extra \in (IF impl = "chunkWhere" THEN ExtraClauses ELSE {NoExtra}) :
          \E f, l \in BOOLEAN : \E st, en \in Int64 :
            ck = [impl |-> impl, extra |-> extra, kind |-> "single",
                  chunks |-> <<Chunk(f, l, st, en)>>, next |-> 1, out |-> <<>>]

\* StreamChunk of part_001: where := chunkWhere(chunk, extraWhereClause)
StreamChunkWhere ==
  /\ ck.impl = "chunkWhere"
  /\ ck.next <= Len(ck.chunks)
  /\ ck' = [ck EXCEPT !.out = Append(@, chunkWhere(ck.chunks[ck.next], ck.extra)),
                      !.next = @ + 1]
  /\ UNCHANGED <<rs, lq, rd, up, feeder, tableCh, pt, pipeVars>>

\* StreamChunk of part_000
StreamChunkBranching ==
  /\ ck.impl = "branching"
  /\ ck.next <= Len(ck.chunks)
  /\ ck' = [ck EXCEPT !.out = Append(@, streamChunkWhere(ck.chunks[ck.next])),
                      !.next = @ + 1]
  /\ UNCHANGED <<rs, lq, rd, up, feeder, tableCh, pt, pipeVars>>

ChunkNext == StreamChunkWhere \/ StreamChunkBranching

ChunkSpec == ChunkInit /\ [][ChunkNext]_vars

\* ------------------------------------------ filterStreamByShard, part_000
\* uint64(shardingValue)
ToUint64(x) == x % (2 ^ IntBits)

\* vhash: a fixed scatter of the 64-bit ids, one keyspace id per id
vhash(u) == (5 * u + 3) % (2 ^ IntBits)

\* the key ranges tried: nil, and [Start, End) with Start and End at quarters of
\* the keyspace, or with an empty End (no upper bound)
NilRange == [nil |-> TRUE, Start |-> 0, End |-> 0, emptyEnd |-> TRUE]
Quarters == {q * (2 ^ (IntBits - 2)) : q \in 0..3}
KeyRanges ==
  {NilRange}
    \cup [nil : {FALSE}, Start : Quarters, End : Quarters \ {0}, emptyEnd : {FALSE}]
    \cup [nil : {FALSE}, Start : Quarters, End : {0}, emptyEnd : {TRUE}]

\* key.KeyRangeContains: a nil range contains every id; else Start <= id and
\* (End is empty or id < End)
KeyRangeContains(keyRange, id) ==
  IF keyRange.nil THEN TRUE
  ELSE keyRange.Start <= id /\ (keyRange.emptyEnd \/ id < keyRange.End)

\* InShard: for _, keyRange := range shard, from the range i on
RECURSIVE InShardFrom(_, _, _)
InShardFrom(destination, shard, i) ==
  IF i > Len(shard) THEN FALSE
  ELSE IF KeyRangeContains(shard[i], destination) THEN TRUE
  ELSE InShardFrom(destination, shard, i + 1)
InShard(id, shard) == InShardFrom(vhash(id), shard, 1)

\* seeded fault: the rows of the shard are the ones rejected
Rejects_Inverted(row, targetFilter) == InShard(ToUint64(row.ShardingID), targetFilter)
\* the reject function of filterStreamByShard: its error is always nil
Rejects(row, targetFilter) == ~InShard(ToUint64(row.ShardingID), targetFilter)

\* rejectStream.Next: the loop from the source position pos on; the result is
\* the row returned (<<>> for nil), the error, and the source position reached
RECURSIVE RejectNextFrom(_)
RejectNextFrom(pos) ==
  IF pos >= Len(rs.rows)
    THEN [row |-> <<>>, err |-> IF rs.fail THEN ReadErr ELSE Nil, pos |-> pos + 1]
  ELSE IF ~Rejects(rs.rows[pos + 1], rs.filter)
    THEN [row |-> <<rs.rows[pos + 1]>>, err |-> Nil, pos |-> pos + 1]
  ELSE RejectNextFrom(pos + 1)

\* the sharding ids tried: the extremes of int64 and the ids around 0
ShardingIDs == {MinInt64, -1, 0, 1, MaxInt64}

\* filterStreamByShard(stream, table, targetFilter) on a source stream of rows
\* that ends with nil or with an error
RejectInit ==
  /\ NoPipeline
  /\ IdleChunk /\ IdleLimit /\ IdleRead /\ IdleUpdate
  /\ \E n \in 0..MaxRows : \E ids \in [1..n -> ShardingIDs] :
     \E fail \in BOOLEAN :
     \E filter \in UNION {[1..k -> KeyRanges] : k \in 0..MaxRanges} :
       rs = [rows |-> [i \in 1..n |-> [ID |-> i, ShardingID |-> ids[i]]],
             fail |-> fail, filter |-> filter, pos |-> 0, out |-> <<>>,
             end |-> ""]

\* the reader calls Next again, until Next has returned nil or an error
RejectNext ==
  /\ rs.end = ""
  /\ LET r == RejectNextFrom(rs.pos)
     IN  rs' = [rs EXCEPT !.pos = r.pos,
                          !.out = @ \o r.row,
                          !.end = IF r.err # Nil THEN "err"
                                  ELSE IF r.row = <<>> THEN "nil" ELSE ""]
  /\ UNCHANGED <<ck, lq, rd, up, feeder, tableCh, pt, pipeVars>>

RejectSpec == RejectInit /\ [][RejectNext]_vars

\* --------------------------------- limitingDBReader.QueryContext, part_001
\* an error is the sequence of its messages, outermost first; <<>> is nil
NoErr == <<>>
\* errors.New(message)
New(message) == <<message>>
\* errors.Wrap(err, message): nil for a nil err
Wrap(err, message) == IF err = NoErr THEN NoErr ELSE <<message>> \o err
\* errors.WithStack(err): nil for a nil err
WithStack(err) == IF err = NoErr THEN NoErr ELSE <<"stack">> \o err

\* what one call meets: the limiter's answer (token, ok), with a token whenever
\* ok; ctx.Err(); the error of the underlying reader's QueryContext
LimitInputs ==
  {i \in [ok : BOOLEAN, token : BOOLEAN, ctxErr : {NoErr, New(Canceled)},
          qerr : {NoErr, New(ReadErr)}] : i.ok => i.token}

\* seeded fault: the refusal always wraps ctx.Err()
RefusedErr_Wrap(ctxErr) == Wrap(ctxErr, "context deadline exceeded")
\* the error returned when the limiter refuses
RefusedErr(ctxErr) ==
  IF ctxErr # NoErr THEN Wrap(ctxErr, "context deadline exceeded")
  ELSE New("context deadline exceeded")

\* the deferred function: OnSuccess when err == nil, else OnDropped
Outcome(err) == IF err = NoErr THEN "OnSuccess" ELSE "OnDropped"

LimitInit ==
  /\ NoPipeline
  /\ IdleChunk /\ IdleReject /\ IdleRead /\ IdleUpdate
  /\ \E i \in LimitInputs :
       lq = [pc |-> "acquire", in |-> i, token |-> FALSE, queried |-> {},
             notes |-> <<>>, ret |-> <<>>, calls |-> 1]

\* token, ok := l.limiter.Acquire(ctx) with ok
LimiterAcquire ==
  /\ lq.pc = "acquire"
  /\ lq.in.ok
  /\ lq' = [lq EXCEPT !.pc = "query", !.token = TRUE]
  /\ UNCHANGED <<ck, rs, rd, up, feeder, tableCh, pt, pipeVars>>

\* token, ok := l.limiter.Acquire(ctx) with !ok: OnDropped on a non-nil token,
\* and the return of an error
LimiterRefuse ==
  /\ lq.pc = "acquire"
  /\ ~lq.in.ok
  /\ lq' = [lq EXCEPT !.pc = "returned",
                      !.notes = IF lq.in.token
                                  THEN Append(@, [call |-> lq.calls, kind |-> "OnDropped"])
                                  ELSE @,
                      !.ret = <<[rows |-> FALSE, err |-> RefusedErr(lq.in.ctxErr)]>>]
  /\ UNCHANGED <<ck, rs, rd, up, feeder, tableCh, pt, pipeVars>>

\* rows, err = l.reader.QueryContext(ctx, query, args...) and the assignment of
\* the results by return rows, errors.WithStack(err)
ReaderQuery ==
  /\ lq.pc = "query"
  /\ lq' = [lq EXCEPT !.pc = "deferred",
                      !.queried = @ \cup {lq.calls},
                      !.ret = <<[rows |-> lq.in.qerr = NoErr,
                                 err |-> WithStack(lq.in.qerr)]>>]
  /\ UNCHANGED <<ck, rs, rd, up, feeder, tableCh, pt, pipeVars>>

\* the deferred function runs and QueryContext returns
TokenNotify ==
  /\ lq.pc = "deferred"
  /\ lq' = [lq EXCEPT !.pc = "returned",
                      !.notes = Append(@, [call |-> lq.calls,
                                           kind |-> Outcome(lq.ret[1].err)])]
  /\ UNCHANGED <<ck, rs, rd, up, feeder, tableCh, pt, pipeVars>>

\* the next call of QueryContext on the same limitingDBReader
QueryAgain ==
  /\ lq.pc = "returned"
  /\ lq.calls < MaxCalls
  /\ \E i \in LimitInputs :
       lq' = [lq EXCEPT !.pc = "acquire", !.in = i, !.token = FALSE,
                        !.ret = <<>>, !.calls = @ + 1]
  /\ UNCHANGED <<ck, rs, rd, up, feeder, tableCh, pt, pipeVars>>

LimitNext ==
  LimiterAcquire \/ LimiterRefuse \/ ReaderQuery \/ TokenNotify \/ QueryAgain

LimitSpec == LimitInit /\ [][LimitNext]_vars

\* ------------------------------------------ readAll, bufferStream, part_001
\* the rows tried, by their ID
RowIDs == 1..MaxStream

\* bufferStream.Next: nil on an empty b.rows, else b.rows[0], and
\* b.rows = b.rows[1:]; the result is the row (<<>> for nil) and the new b.rows
BufferNext(rows) ==
  IF Len(rows) = 0 THEN [row |-> <<>>, rows |-> rows]
  ELSE [row |-> <<rows[1]>>, rows |-> SubSeq(rows, 2, Len(rows))]

\* seeded fault: the rows read so far are returned with the error
ErrorRows_Partial(rows) == rows
\* readAll: return nil, errors.WithStack(err)
ErrorRows(rows) == <<>>

\* readAll(stream) on stream(rows), the bufferStream, or on a stream of the same
\* rows whose Next fails at some call
ReadInit ==
  /\ NoPipeline
  /\ IdleChunk /\ IdleReject /\ IdleLimit /\ IdleUpdate
  /\ \E n \in 0..MaxStream : \E src \in [1..n -> RowIDs] :
     \E failAt \in 0..(n + 1) :
       rd = [pc |-> "loop", src |-> src, failAt |-> failAt, buf |-> src,
             pos |-> 0, rows |-> <<>>, closed |-> 0, ret |-> <<>>,
             later |-> <<>>]

\* row, err := stream.Next() with an error: return nil, errors.WithStack(err)
NextErr ==
  /\ rd.pc = "loop"
  /\ rd.failAt = rd.pos + 1
  /\ rd' = [rd EXCEPT !.pc = "close", !.pos = @ + 1,
                      !.ret = <<[rows |-> ErrorRows(rd.rows),
                                 err |-> WithStack(New(ReadErr))]>>]
  /\ UNCHANGED <<ck, rs, lq, up, feeder, tableCh, pt, pipeVars>>

\* row, err := stream.Next() with row == nil: break, return rows, nil
NextNil ==
  /\ rd.pc = "loop"
  /\ rd.failAt # rd.pos + 1
  /\ BufferNext(rd.buf).row = <<>>
  /\ rd' = [rd EXCEPT !.pc = "close", !.pos = @ + 1,
                      !.buf = BufferNext(rd.buf).rows,
                      !.ret = <<[rows |-> rd.rows, err |-> NoErr]>>]
  /\ UNCHANGED <<ck, rs, lq, up, feeder, tableCh, pt, pipeVars>>

\* row, err := stream.Next() with a row: rows = append(rows, row)
NextRow ==
  /\ rd.pc = "loop"
  /\ rd.failAt # rd.pos + 1
  /\ BufferNext(rd.buf).row # <<>>
  /\ rd' = [rd EXCEPT !.pos = @ + 1,
                      !.buf = BufferNext(rd.buf).rows,
                      !.rows = @ \o BufferNext(rd.buf).row]
  /\ UNCHANGED <<ck, rs, lq, up, feeder, tableCh, pt, pipeVars>>

\* defer stream.Close(), and readAll returns
DeferredClose ==
  /\ rd.pc = "close"
  /\ rd' = [rd EXCEPT !.pc = "returned", !.closed = @ + 1]
  /\ UNCHANGED <<ck, rs, lq, up, feeder, tableCh, pt, pipeVars>>

\* a later Next on the bufferStream that readAll has read
LaterNext ==
  /\ rd.pc = "returned"
  /\ rd.failAt = 0
  /\ Len(rd.later) < MaxLater
  /\ rd' = [rd EXCEPT !.buf = BufferNext(rd.buf).rows,
                      !.later = Append(@, BufferNext(rd.buf).row)]
  /\ UNCHANGED <<ck, rs, lq, up, feeder, tableCh, pt, pipeVars>>

ReadNext == NextErr \/ NextNil \/ NextRow \/ DeferredClose \/ LaterNext

ReadSpec == ReadInit /\ [][ReadNext]_vars

\* ------------------------------------------------- Row.Updated, part_001
\* Table.PkOfRow(row): the cell of the row at the table's IDColumnIndex
PkOfRow(table, row) == row[table.IDColumnIndex + 1]

\* seeded fault: the receiver is returned, with its own Data
Updated_Receiver(r, row) == r
\* &Row{Table: r.Table, ID: r.ID, Data: row}
Updated(r, row) == [Table |-> r.Table, ID |-> r.ID, Data |-> row]

\* r.Updated(row) on a row r of a table of two columns, either of them the ID
\* column, with Data[IDColumnIndex] = ID, and any row of two cells
UpdateInit ==
  /\ NoPipeline
  /\ IdleChunk /\ IdleReject /\ IdleLimit /\ IdleRead
  /\ LET cells == {MinInt64, 0, 1, MaxInt64}
     IN  \E table \in [Name : Tables, IDColumnIndex : 0..1] :
         \E data, row \in [1..2 -> cells] :
           LET r == [Table |-> table, ID |-> PkOfRow(table, data), Data |-> data]
           IN  up = [pc |-> "call", r |-> r, was |-> r, row |-> row,
                     ret |-> <<>>, panic |-> ""]

\* if r.Table.PkOfRow(row) != r.ID { panic("updating row with another ID") }
UpdatedPanic ==
  /\ up.pc = "call"
  /\ PkOfRow(up.r.Table, up.row) # up.r.ID
  /\ up' = [up EXCEPT !.pc = "panicked", !.panic = "updating row with another ID"]
  /\ UNCHANGED <<ck, rs, lq, rd, feeder, tableCh, pt, pipeVars>>

\* return &Row{...}
UpdatedReturn ==
  /\ up.pc = "call"
  /\ PkOfRow(up.r.Table, up.row) = up.r.ID
  /\ up' = [up EXCEPT !.pc = "returned", !.ret = <<Updated(up.r, up.row)>>]
  /\ UNCHANGED <<ck, rs, lq, rd, feeder, tableCh, pt, pipeVars>>

UpdateSpec == UpdateInit /\ [][UpdatedPanic \/ UpdatedReturn]_vars

\* ============================================================ the claims
\* ------------------------------------------------------------- helpers
RECURSIVE Concat(_)
Concat(ss) == IF ss = <<>> THEN <<>> ELSE Head(ss) \o Concat(Tail(ss))

Emitted == {hist.emitted[i] : i \in DOMAIN hist.emitted}
\* the rows emitted in batches of type t, in emission order
EmittedRows(t) ==
  LET es == SelectSeq(hist.emitted, LAMBDA e : e.batch.Type = t)
  IN  Concat([i \in DOMAIN es |-> es[i].batch.Rows])
\* the diffs the batcher has received so far, in arrival order
Consumed == SubSeq(feeder.fed, 1, Len(feeder.fed) - Len(diffs.buf))
RowsOfType(ds, t) ==
  LET sel == SelectSeq(ds, LAMBDA d : d.Type = t)
  IN  [i \in DOMAIN sel |-> sel[i].Row]
\* the places <<batch, index>> of the emitted batches that hold row r
EmittedAt(r) ==
  {p \in UNION {{i} \X DOMAIN hist.emitted[i].batch.Rows : i \in DOMAIN hist.emitted} :
     hist.emitted[p[1]].batch.Rows[p[2]] = r}
OpenRows(t) == IF t \in DOMAIN batchesByType THEN batchesByType[t].Rows ELSE <<>>

\* C7 as stated: every batch sent by BatchTableWrites and by BatchWrites has
\* 1 <= len(Rows) <= batchSize, and a batch sent before the diffs channel was
\* closed has exactly batchSize rows.
C7_Original ==
  \A e \in Emitted :
    /\ 1 <= Len(e.batch.Rows)
    /\ Len(e.batch.Rows) <= cmd.WriteBatchSize
    /\ ~e.closed => Len(e.batch.Rows) = cmd.WriteBatchSize

\* C7 amended: every batch sent by either batcher has 1 <= len(Rows) <= batchSize;
\* a batch sent before the diffs channel was closed and before the batcher took
\* its ctx.Done() case has exactly batchSize rows (BatchWrites sends its open
\* partial batches once it has seen the cancellation).
C7_BatchSizeBound ==
  \A e \in Emitted :
    /\ 1 <= Len(e.batch.Rows)
    /\ Len(e.batch.Rows) <= cmd.WriteBatchSize
    /\ (~e.closed /\ ~e.observed) => Len(e.batch.Rows) = cmd.WriteBatchSize

\* with batchSize 2, a batch of two rows was sent from the read loop while diffs
\* was open and uncancelled
C7_Witness ==
  /\ cmd.WriteBatchSize = 2
  /\ \E e \in Emitted : ~e.closed /\ ~e.observed /\ Len(e.batch.Rows) = 2

\* C8: every row of a batch sent by BatchWrites comes from a diff of the batch's
\* Type and of the batch's Table; every row of a batch sent by BatchTableWrites
\* comes from a diff of the batch's Type.
C8_Purity ==
  \A e \in Emitted : \A i \in DOMAIN e.batch.Rows :
    LET diff == feeder.fed[e.batch.Rows[i]]
    IN  /\ diff.Type = e.batch.Type
        /\ batcher.fn = "BatchWrites" => diff.Table = e.batch.Table

\* BatchWrites has sent two batches that differ in type and in table
C8_Witness ==
  /\ batcher.fn = "BatchWrites"
  /\ \E e1, e2 \in Emitted :
       /\ e1.batch.Type # e2.batch.Type
       /\ e1.batch.Table # e2.batch.Table

\* C9: in BatchTableWrites, whenever the read loop is at its select, for each
\* Type the rows of the batches sent so far followed by the rows of the open
\* batch are the rows of the consumed diffs of that type in arrival order (so the
\* buffer restarts empty after a full batch); and once it has returned after the
\* close of diffs, the rows of the batches sent are exactly the rows of all
\* diffs, per type in arrival order, each row once.
C9_NoDiffLost ==
  batcher.fn = "BatchTableWrites" =>
    /\ batcher.pc = "select" =>
         \A t \in DiffTypes :
           EmittedRows(t) \o OpenRows(t) = RowsOfType(Consumed, t)
    /\ (batcher.pc \in {"returned", "done"} /\ ~hist.observed) =>
         /\ \A t \in DiffTypes : EmittedRows(t) = RowsOfType(feeder.fed, t)
         /\ \A r \in 1..feeder.sent :
              Cardinality(EmittedAt(r)) = 1

\* BatchTableWrites returned after the close of diffs, having sent two batches
\* of one type, the first of them full
C9_Witness ==
  /\ batcher.fn = "BatchTableWrites"
  /\ batcher.pc = "done"
  /\ ~hist.observed
  /\ feeder.sent = MaxDiffs
  /\ \E i, j \in DOMAIN hist.emitted :
       /\ i < j
       /\ hist.emitted[i].batch.Type = hist.emitted[j].batch.Type
       /\ ~hist.emitted[i].closed

\* C10: once BatchTableWrites has taken its ctx.Done() case it has returned (it
\* does not go on to the final batches), no batch sent after that has fewer than
\* batchSize rows, and it has not closed batches: the channel is closed once, by
\* the caller, after the return.
C10_CancelledBatcher ==
  (batcher.fn = "BatchTableWrites" /\ hist.observed) =>
    /\ batcher.pc \in {"returned", "done"}
    /\ \A e \in Emitted : e.observed => Len(e.batch.Rows) >= cmd.WriteBatchSize
    /\ batcher.pc = "returned" => batches.closed = 0
    /\ batcher.pc = "done" => batches.closed = 1

\* BatchTableWrites returned on cancellation with a partial batch still open,
\* and the caller has closed batches
C10_Witness ==
  /\ batcher.fn = "BatchTableWrites"
  /\ hist.observed
  /\ batcher.pc = "done"
  /\ \E t \in DiffTypes : OpenRows(t) # <<>> /\ Len(OpenRows(t)) < cmd.WriteBatchSize

\* ------------------------------------------------- processTable claims
\* no query or write has failed or timed out and the caller has not cancelled
FaultFree == hist.faults = {} /\ ~hist.cancelled

\* C1: in a fault-free run of processTable (any reader weight >= 1, any
\* QueueSize >= 0, any number of chunks >= 1), as long as some stage has not
\* exited, some stage or sub-task can take a step.
C1_DeadlockFree ==
  FaultFree => (StagesExited \/ ENABLED StageStep)

\* C2: once the context passed to processTable is cancelled, as long as
\* processTable has not returned, some stage or sub-task can take a step (no
\* stage is blocked for good on a receive, a send or an Acquire).
C2_TerminatesOnCancel ==
  ambient => (ret.done \/ ENABLED (StageStep \/ CancelStep))

\* C3: once the writer stage has returned an error (a batch write failed, or the
\* scheduling of one) after a stage failure, with no cancellation by the caller,
\* the other stages can go on to their exit until processTable has returned,
\* and it returns a non-nil error.
C3_WriterFailureTerminates ==
  (writer.pc = "done" /\ writer.err # Nil /\ hist.faults # {}
     /\ ~hist.cancelled) =>
    /\ ret.done \/ ENABLED (StageStep \/ CancelStep)
    /\ ret.done => ret.err # Nil

\* C4: when processTable has returned, each of chunks, diffs and batches has
\* been closed exactly once; no channel is ever closed twice and nothing is sent
\* on a closed channel.
C4_ChannelsClosedOnce ==
  /\ chunks.closed <= 1 /\ diffs.closed <= 1 /\ batches.closed <= 1
  /\ ~hist.sendAfterClose
  /\ ret.done => (chunks.closed = 1 /\ diffs.closed = 1 /\ batches.closed = 1)

\* C5: when the caller never cancels and a chunk diff or a batch write failed,
\* the error processTable returns is one of the failures that happened, never
\* nil and never context.Canceled.
C5_FirstErrorReported ==
  (ret.done /\ ~hist.cancelled /\ hist.faults \cap {ReadErr, WriteErr} # {}) =>
    ret.err \in hist.faults

\* C11: for every (table, type) writes_enqueued >= writes_processed in every
\* state, and when processTable has returned nil the two counters are equal:
\* each batch has added len(Rows) to writes_enqueued exactly once.
C11_MetricParity ==
  /\ \A k \in DOMAIN writesEnqueued : writesEnqueued[k] >= writesProcessed[k]
  /\ (ret.done /\ ret.err = Nil) => writesEnqueued = writesProcessed

\* the permit of the chunker while GenerateTableChunks runs
HeldByChunker == IF chunker.pc = "generate" THEN 1 ELSE 0
\* the chunk diffs in flight
InFlight == {c \in DOMAIN diffTasks : diffTasks[c].pc = "run"}

\* C12: the reader permits held never exceed the weight; they are exactly one
\* for the chunker while GenerateTableChunks runs plus one per chunk diff in
\* flight (so each acquired permit is released once, whatever the outcome), and
\* once all stages and chunk diffs have exited no permit is held.
C12_ReaderPermits ==
  /\ readerLimiter.cur <= readerLimiter.size
  /\ readerLimiter.cur = HeldByChunker + Cardinality(InFlight)
  /\ (StagesExited /\ InFlight = {}) => readerLimiter.cur = 0

\* processTable has returned after a failed chunk diff, two chunk diffs were
\* started, all of them have exited and no permit is held
C12_Witness ==
  /\ ret.done
  /\ hist.faults = {ReadErr}
  /\ differ.chunkCount >= 2
  /\ InFlight = {}
  /\ readerLimiter.cur = 0

\* ------------------------------------------------------ chunk claims
\* the chunks queried so far that select the row with this id
SelectedBy(id) == {i \in DOMAIN ck.out : Selects(ck.out[i], id)}

\* C13: for the chunks First[ ,b1), [b1,b2), ..., Last[bk, ) of ascending
\* boundaries, the predicates built by chunkWhere with an empty extra clause
\* are pairwise disjoint, and once all are built every int64 id, the minimum
\* and the maximum included, is selected by exactly one chunk.
C13_ChunkCoverage ==
  (ck.impl = "chunkWhere" /\ ck.kind = "partition" /\ ck.extra = NoExtra) =>
    \A id \in Int64 :
      LET n == Cardinality(SelectedBy(id))
      IN  IF ck.next > Len(ck.chunks) THEN n = 1 ELSE n <= 1

\* chunkWhere has built the predicates of the three chunks of two boundaries,
\* the minimum int64 and a positive one
C13_Witness ==
  /\ ck.impl = "chunkWhere" /\ ck.kind = "partition" /\ ck.extra = NoExtra
  /\ Len(ck.chunks) = 3
  /\ ck.next > Len(ck.chunks)
  /\ ck.chunks[2].Start = MinInt64
  /\ ck.chunks[2].End > 0

\* C14: a chunk with First and Last both true selects every row whatever its
\* Start and End, in the StreamChunk built on chunkWhere (with no extra clause)
\* and in the StreamChunk that tests chunk.First and then chunk.Last.
C14_WholeTable ==
  \A i \in DOMAIN ck.out :
    (ck.chunks[i].First /\ ck.chunks[i].Last /\ ck.extra = NoExtra) =>
      \A id \in Int64 : Selects(ck.out[i], id)

\* ------------------------------------------------------ shard claims
\* the rows of a sequence whose hashed sharding id is in some range of the filter
RECURSIVE Admitted(_, _)
Admitted(rows, filter) ==
  IF rows = <<>> THEN <<>>
  ELSE (IF \E i \in DOMAIN filter :
             KeyRangeContains(filter[i], vhash(ToUint64(Head(rows).ShardingID)))
          THEN <<Head(rows)>> ELSE <<>>) \o Admitted(Tail(rows), filter)

\* C15: the rows returned so far by the stream of filterStreamByShard are the
\* source rows taken so far that are in the shard (some key range of the filter
\* contains the hashed id; no row with an empty filter), in source order, each
\* once; Next returns nil only after the source returned nil, and then all the
\* source rows in the shard have been returned; it returns an error only when
\* the source did, and no row with it.
C15_ShardExclusion ==
  rs.end # "none" =>
    /\ rs.out = Admitted(SubSeq(rs.rows, 1, IF rs.pos > Len(rs.rows)
                                              THEN Len(rs.rows) ELSE rs.pos),
                         rs.filter)
    /\ rs.end = "nil" => (~rs.fail /\ rs.pos > Len(rs.rows))
    /\ rs.end = "err" => (rs.fail /\ rs.pos > Len(rs.rows))
    /\ \A i \in DOMAIN rs.rows :
         InShard(ToUint64(rs.rows[i].ShardingID), rs.filter) <=>
           \E k \in DOMAIN rs.filter :
             KeyRangeContains(rs.filter[k], vhash(ToUint64(rs.rows[i].ShardingID)))

\* the stream has ended with nil after a rejected row and a returned row, the
\* returned one with a negative sharding id
C15_Witness ==
  /\ rs.end = "nil"
  /\ Len(rs.rows) = 2
  /\ Len(rs.out) = 1
  /\ rs.out[1].ShardingID < 0
  /\ rs.filter # <<>> /\ ~rs.filter[1].nil

\* ------------------------------------------------- ProcessTables claims
\* C6: when the caller cancelled the context while ProcessTables was running and
\* nothing else failed, ProcessTables has not crashed, and once it has returned
\* it has returned nil, whichever of its select and the running processTable saw
\* the cancellation.
C6_CancelSwallowed ==
  (hist.cancelled /\ hist.faults = {}) =>
    /\ ~hist.panic
    /\ pt.pc = "returned" => pt.err = Nil

\* C16: ProcessTables runs the tables one at a time in the order they were sent
\* on tableCh: the table it is processing is the next one of that order, its
\* pipeline is running (the process has not crashed in it), and once
\* ProcessTables has returned with tableCh closed and drained it has returned
\* nil.
C16_TableDispatch ==
  /\ pt.pc = "table" =>
       /\ pt.table = MaxTables - tableCh.left - Len(tableCh.buf)
       /\ Alive
  /\ (pt.pc = "returned" /\ tableCh.closed > 0 /\ tableCh.buf = <<>>) => pt.err = Nil

\* C17: while a pipeline launched by ProcessTables runs, neither its chunker nor
\* its differ stands at an Acquire on a nil reader semaphore.
C17_UsableLimiter ==
  (pt.pc = "table" /\ (chunker.pc = "acquire" \/ differ.pc = "acquire")) =>
    ~readerLimiter.nil

\* ------------------------------------------------------- limiter claims
\* the notifications sent to the token of the call c
NotesOf(c) == SelectSeq(lq.notes, LAMBDA n : n.call = c)

\* C18: in every call of limitingDBReader.QueryContext the underlying reader is
\* queried only after the limiter granted a token; a granted token has no
\* notification before the query and exactly one once QueryContext has
\* returned, OnSuccess iff the underlying query returned no error and else
\* OnDropped, and the call returns the query's outcome; after a refusal the
\* underlying reader is not queried, the refused token has at most OnDropped,
\* and the error returned is non-nil, also when ctx.Err() is nil.
C18_TokenProtocol ==
  lq.pc # "none" =>
    /\ \A c \in lq.queried :
         /\ c < lq.calls \/ lq.token
         /\ c < lq.calls \/ lq.pc = "returned" => Len(NotesOf(c)) = 1
    /\ (lq.token /\ lq.pc \in {"query", "deferred"}) => NotesOf(lq.calls) = <<>>
    /\ (lq.token /\ lq.pc = "returned") =>
         /\ lq.calls \in lq.queried
         /\ NotesOf(lq.calls) = <<[call |-> lq.calls,
                                   kind |-> IF lq.in.qerr = NoErr THEN "OnSuccess"
                                            ELSE "OnDropped"]>>
         /\ lq.ret[1].err = NoErr <=> lq.in.qerr = NoErr
         /\ lq.ret[1].rows <=> lq.in.qerr = NoErr
    /\ (~lq.in.ok /\ lq.pc = "returned") =>
         /\ lq.calls \notin lq.queried
         /\ ~lq.token
         /\ lq.ret[1].err # NoErr
         /\ ~lq.ret[1].rows
         /\ \A i \in DOMAIN NotesOf(lq.calls) :
              i = 1 /\ NotesOf(lq.calls)[i].kind = "OnDropped" /\ lq.in.token

\* a call refused with no token and no error in the context has returned after
\* a call whose query failed
C18_Witness ==
  /\ lq.pc = "returned"
  /\ lq.calls = 2
  /\ ~lq.in.ok /\ ~lq.in.token /\ lq.in.ctxErr = NoErr
  /\ 1 \in lq.queried
  /\ NotesOf(1) = <<[call |-> 1, kind |-> "OnDropped"]>>

\* -------------------------------------------------------- stream claims
\* C19: readAll has closed its stream exactly once when it has returned, after
\* exhaustion and after an error of Next, and not before; what it has read so
\* far and what the stream still holds are the stream's rows, in order, each
\* once; on success it returns all the rows in stream order, on an error no
\* rows; every Next on a bufferStream after its last row returns nil; so
\* readAll(stream(rows)) returns rows.
C19_ScopedStreams ==
  rd.pc # "none" =>
    /\ rd.closed = (IF rd.pc = "returned" THEN 1 ELSE 0)
    /\ rd.pc = "loop" => (rd.rows \o rd.buf = rd.src /\ rd.ret = <<>>)
    /\ rd.ret # <<>> =>
         IF rd.failAt = 0
           THEN rd.ret[1] = [rows |-> rd.src, err |-> NoErr] /\ rd.buf = <<>>
           ELSE /\ rd.ret[1].rows = <<>>
                /\ rd.ret[1].err # NoErr
                /\ rd.pos = rd.failAt
    /\ \A i \in DOMAIN rd.later : rd.later[i] = <<>>

\* readAll has returned two rows of a bufferStream, and a later Next was made
C19_Witness ==
  /\ rd.pc = "returned"
  /\ rd.failAt = 0
  /\ Len(rd.src) = 2
  /\ rd.ret[1].rows = rd.src
  /\ Len(rd.later) > 0

\* ------------------------------------------------ BatchWrites exit claim
\* C20: BatchWrites closes batches itself, once, as its last step before it
\* returns, whether it left its loop on the close of diffs or on ctx.Done():
\* batches is closed exactly when BatchWrites has returned, nothing is sent on
\* it after the close, the caller has no close left to do, and by then every
\* row of a diff that BatchWrites received is in exactly one batch sent, so
\* every non-empty open batch was sent before the close.
C20_MultiExit ==
  batcher.fn = "BatchWrites" =>
    /\ batches.closed = (IF batcher.pc = "done" THEN 1 ELSE 0)
    /\ batcher.pc # "returned"
    /\ ~hist.sendAfterClose
    /\ batcher.pc = "done" =>
         /\ \A k \in NonEmptyKeys(batchesByType) :
              \E e \in Emitted : e.batch = batchesByType[k]
         /\ \A i \in DOMAIN Consumed :
              Cardinality(EmittedAt(Consumed[i].Row)) = 1

\* BatchWrites returned on cancellation, after sending a batch with fewer than
\* batchSize rows that was open when it saw the cancellation
C20_Witness ==
  /\ batcher.fn = "BatchWrites"
  /\ batcher.pc = "done"
  /\ hist.observed
  /\ batches.closed = 1
  /\ \E e \in Emitted : e.observed /\ Len(e.batch.Rows) < cmd.WriteBatchSize

\* ---------------------------------------------------- Row.Updated claim
\* C21: r.Updated(data) has returned only when the primary key of data equals
\* r.ID, and then it returned one new row with r's Table, r's ID and Data = data;
\* it has panicked only when the primary key differs, and then it returned no
\* row; either way the receiver is as it was at the call.
C21_Updated ==
  /\ up.pc = "returned" =>
       /\ PkOfRow(up.was.Table, up.row) = up.was.ID
       /\ up.ret = <<[Table |-> up.was.Table, ID |-> up.was.ID, Data |-> up.row]>>
       /\ up.panic = ""
  /\ up.pc = "panicked" =>
       /\ PkOfRow(up.was.Table, up.row) # up.was.ID
       /\ up.ret = <<>>
       /\ up.panic # ""
  /\ up.pc \in {"returned", "panicked"} => up.r = up.was

\* Updated has returned a row whose Data differs from the receiver's, for a
\* table whose ID column is the second one and the least ID
C21_Witness ==
  /\ up.pc = "returned"
  /\ up.r.Table.IDColumnIndex = 1
  /\ up.r.ID = MinInt64
  /\ up.row # up.r.Data
  /\ up.ret[1].Data = up.row

====
